---- MODULE Spec2Model ----
(***************************************************************************)
(* Model of the Jupiter token trade bot's signal pipeline:                 *)
(*   jupiter_tracker.py  appends PricePoints to token_price_data_v3.json   *)
(*   app_anon.py         the dashboard callback: candles, Fibonacci/ATR    *)
(*                       levels, trigger machine, price_savant_anon.json   *)
(*                       and trigger2.json                                 *)
(*                                                                         *)
(* Units.  A timestamp is a whole number of minutes.  A price is a whole   *)
(* number of price units.  The levels derived by rolling means (wma_fib_0, *)
(* wma_fib_50, atr, fib_entry, reset_threshold) are rationals; they are    *)
(* kept exactly, as integers in units of 1/Scale price unit, where Scale   *)
(* is a common multiple of every denominator the code can produce          *)
(* (24, 48, 14, and the factors 1.5, 0.85, 1.05, 1.15).                    *)
(* A Python value that may be None is a sequence: <<>> is None, <<v>> is v.*)
(***************************************************************************)
EXTENDS Integers, Sequences, FiniteSets, TLC

\* ------------------------------------------------------------------------
\* Program constants
\* ------------------------------------------------------------------------
ATR_PERIOD == 14
MIN_CANDLES == 66
HIGH_LOW_WINDOW == 42
WMA_WINDOW == 24
BUCKET_MINUTES == 5
\* denominator of the level units: a multiple of 24 and 48 (means over 24
\* rows, halves), of 14 and 28 (means over 14 rows, times 1.5) and of 480
\* (a mean over 24 rows times 0.85, 1.05 or 1.15)
Scale == WMA_WINDOW * ATR_PERIOD * 10

\* ------------------------------------------------------------------------
\* Bounds of the model
\* ------------------------------------------------------------------------
\* candles already in the price history when the dashboard first starts
WarmCandles == 65
\* PricePoints the tracker adds during a run
MaxNew == 2
\* the price of every warm-up point
WarmPrice == 100
\* candles of the short price history the indicators are also computed on
ShortCandles == 12
\* prices the feed may report afterwards
Prices == {90, 102, 110}
\* minutes between the previous PricePoint's timestamp and the next one's:
\* the same instant, the next 5-minute bucket, the wall clock set back an hour
TsSteps == {0, 5, -60}
\* the price of a dip that arms the trigger and the prices of the rally after it
DipPrice == 90
RallyPrices == {102, 110}
\* BUY commands the signal bot writes during a run
MaxCommands == 2
\* prices of a market that swings, and the steps between their PricePoints
SwingPrices == {10, 100, 200}
SwingSteps == {0, 5}

\* ------------------------------------------------------------------------
\* Python values
\* ------------------------------------------------------------------------
None == <<>>
Some(v) == <<v>>
IsNone(x) == x = <<>>
\* Python truthiness of an optional number: None and 0.0 are false
Truthy(x) == x # <<>> /\ x[1] # 0

SetMax(S) == CHOOSE x \in S : \A y \in S : x >= y
SetMin(S) == CHOOSE x \in S : \A y \in S : x =< y
Abs(x) == IF x < 0 THEN -x ELSE x

RECURSIVE TabulateRange(_, _, _)
TabulateRange(f, lo, hi) ==
    IF lo > hi THEN <<>>
    ELSE IF lo = hi THEN <<f[lo]>>
    ELSE LET mid == (lo + hi) \div 2
         IN TabulateRange(f, lo, mid) \o TabulateRange(f, mid + 1, hi)

\* the sequence <<f[1], ..., f[n]>>, each entry evaluated once
Tabulate(f, n) == TabulateRange(f, 1, n)

RECURSIVE PrefixSums(_, _, _)
\* the running sums of col[lo..hi]; an undefined entry counts 0
PrefixSums(col, lo, hi) ==
    IF lo > hi THEN <<>>
    ELSE IF lo = hi THEN <<IF col[lo] = None THEN 0 ELSE col[lo][1]>>
    ELSE LET mid == (lo + hi) \div 2
             left == PrefixSums(col, lo, mid)
             right == PrefixSums(col, mid + 1, hi)
             base == left[Len(left)]
         IN left \o [k \in DOMAIN right |-> right[k] + base]

\* ------------------------------------------------------------------------
\* Candle aggregation: df['price'].resample('5min').ohlc(); dropna()
\* ------------------------------------------------------------------------
Floor5min(ts) == ts - (ts % BUCKET_MINUTES)

\* the buckets of S in increasing order (S is a set of multiples of the
\* bucket width)
SortedSeq(S) ==
    IF S = {} THEN <<>>
    ELSE LET lo == SetMin(S)
             n == (SetMax(S) - lo) \div BUCKET_MINUTES + 1
             all == Tabulate([k \in 1..n |-> lo + (k - 1) * BUCKET_MINUTES], n)
         IN SelectSeq(all, LAMBDA b : b \in S)

\* One candle of the points whose timestamp floors to bucket b (bucketOf[i]
\* is the bucket of data[i]).  resample sorts the rows by timestamp with a
\* stable sort, so open is the price of the first-arrived point among those
\* with the least timestamp and close the price of the last-arrived point
\* among those with the greatest.
Candle(data, bucketOf, b) ==
    LET idx == {i \in DOMAIN data : bucketOf[i] = b}
        tsMin == SetMin({data[i].timestamp : i \in idx})
        tsMax == SetMax({data[i].timestamp : i \in idx})
        first == SetMin({i \in idx : data[i].timestamp = tsMin})
        last == SetMax({i \in idx : data[i].timestamp = tsMax})
        prices == {data[i].price : i \in idx}
    IN [bucket |-> b, open |-> data[first].price, high |-> SetMax(prices),
        low |-> SetMin(prices), close |-> data[last].price]

\* the non-empty candles in bucket order
Resample(data) ==
    LET bucketOf == Tabulate([i \in DOMAIN data |-> Floor5min(data[i].timestamp)],
                             Len(data))
        buckets == SortedSeq({bucketOf[i] : i \in DOMAIN data})
    IN Tabulate([k \in DOMAIN buckets |-> Candle(data, bucketOf, buckets[k])],
                Len(buckets))

\* ------------------------------------------------------------------------
\* Rolling windows (pandas: NaN until the window holds `window` values)
\* ------------------------------------------------------------------------
\* the last row of col that is NaN, 0 if none
LastNone(col) == SetMax({0} \cup {j \in DOMAIN col : col[j] = None})

\* the window of w rows ending at row i holds w values
WindowDefined(i, w, lastNone) == i >= w /\ i - w + 1 > lastNone

RollingMax(col, w) ==
    LET lastNone == LastNone(col)
    IN Tabulate([i \in DOMAIN col |->
                   IF WindowDefined(i, w, lastNone)
                   THEN Some(SetMax({col[j][1] : j \in (i - w + 1)..i}))
                   ELSE None], Len(col))

RollingMin(col, w) ==
    LET lastNone == LastNone(col)
    IN Tabulate([i \in DOMAIN col |->
                   IF WindowDefined(i, w, lastNone)
                   THEN Some(SetMin({col[j][1] : j \in (i - w + 1)..i}))
                   ELSE None], Len(col))

\* rolling(w).mean() of a column in units of 1/den price unit, den | Scale;
\* the result is in units of 1/Scale
RollingMean(col, w, den) ==
    LET lastNone == LastNone(col)
        sums == PrefixSums(col, 1, Len(col))
    IN Tabulate([i \in DOMAIN col |->
                   IF WindowDefined(i, w, lastNone)
                   THEN Some(((sums[i] - (IF i = w THEN 0 ELSE sums[i - w])) * Scale)
                             \div (w * den))
                   ELSE None], Len(col))

\* ------------------------------------------------------------------------
\* FibonacciCalculator.calculate_fib_levels and the ATR / fib_entry columns
\* ------------------------------------------------------------------------
Column(df, name) == Tabulate([i \in DOMAIN df |-> Some(df[i][name])], Len(df))

\* lines 262-268: highest_high, lowest_low, wma_fib_0, wma_fib_50 as columns
RollingLevels(df) ==
    LET hh == RollingMax(Column(df, "high"), HIGH_LOW_WINDOW)
        ll == RollingMin(Column(df, "low"), HIGH_LOW_WINDOW)
        \* highest_high - (highest_high - lowest_low) * 0.5, in half units
        mid == Tabulate([i \in DOMAIN df |->
                   IF hh[i] = None \/ ll[i] = None THEN None
                   ELSE Some(2 * hh[i][1] - (hh[i][1] - ll[i][1]))], Len(df))
    IN [highest_high |-> hh, lowest_low |-> ll,
        wma_fib_0 |-> RollingMean(ll, WMA_WINDOW, 1),
        wma_fib_50 |-> RollingMean(mid, WMA_WINDOW, 2)]

\* line 261: the two wma columns are NaN and the other two are absent
NoLevels(df) ==
    LET allNone == Tabulate([i \in DOMAIN df |-> None], Len(df))
    IN [highest_high |-> allNone, lowest_low |-> allNone,
        wma_fib_0 |-> allNone, wma_fib_50 |-> allNone]

\* the levels computed whatever the number of candles
calculate_fib_levels_unguarded(df) == RollingLevels(df)

calculate_fib_levels(df) ==
    IF Len(df) < MIN_CANDLES THEN NoLevels(df) ELSE RollingLevels(df)

\* the candle's own range only
TrueRangeHighLow(df) ==
    Tabulate([i \in DOMAIN df |-> Some(df[i].high - df[i].low)], Len(df))

\* tr = max over the defined ones of high-low, |high-prev close|,
\* |low-prev close| (DataFrame.max skips NaN, so row 1 has tr = high-low)
TrueRange(df) ==
    Tabulate([i \in DOMAIN df |->
        IF i = 1 THEN Some(df[i].high - df[i].low)
        ELSE Some(SetMax({df[i].high - df[i].low,
                          Abs(df[i].high - df[i - 1].close),
                          Abs(df[i].low - df[i - 1].close)}))], Len(df))

AtrColumn(df) == RollingMean(TrueRange(df), ATR_PERIOD, 1)

\* the entry level without its floor
FibEntryNoFloor(wma_fib_0, atr) ==
    IF wma_fib_0 = None \/ atr = None THEN None
    ELSE Some(wma_fib_0[1] - (atr[1] * 3) \div 2)

\* atr_multiplier = 1.5, floor 0.85 of wma_fib_0; NaN if either input is NaN
FibEntry(wma_fib_0, atr) ==
    IF wma_fib_0 = None \/ atr = None THEN None
    ELSE LET raw == wma_fib_0[1] - (atr[1] * 3) \div 2
             floor == (wma_fib_0[1] * 85) \div 100
         IN Some(IF raw >= floor THEN raw ELSE floor)

\* df_with_fibs: one row per candle
IndicatorRows(data) ==
    LET df == Resample(data)
        fib == calculate_fib_levels(df)
        atr == AtrColumn(df)
    IN Tabulate([i \in DOMAIN df |->
          [bucket |-> df[i].bucket,
           open |-> df[i].open, high |-> df[i].high,
           low |-> df[i].low, close |-> df[i].close,
           highest_high |-> fib.highest_high[i],
           lowest_low |-> fib.lowest_low[i],
           wma_fib_0 |-> fib.wma_fib_0[i],
           wma_fib_50 |-> fib.wma_fib_50[i],
           atr |-> atr[i],
           fib_entry |-> FibEntry(fib.wma_fib_0[i], atr[i])]], Len(df))

\* fib_data_map: window_start key -> the candle's row.  A key is the bucket
\* start formatted to the second, '%Y-%m-%d %H:%M:%S', which is one-to-one
\* on bucket starts; the bucket start itself stands for it.
FibDataMap(df_with_fibs) ==
    [b \in {df_with_fibs[i].bucket : i \in DOMAIN df_with_fibs} |->
        df_with_fibs[CHOOSE i \in DOMAIN df_with_fibs : df_with_fibs[i].bucket = b]]

\* ------------------------------------------------------------------------
\* get_wallet_analysis: the hard-coded trades.  SOL amounts are in units of
\* 1e-4 SOL and one price unit is 1e-4 SOL per token.  A quotient is kept
\* as the pair of its numerator and denominator.
\* ------------------------------------------------------------------------
Ratio(n, d) == [num |-> n, den |-> d]
TotalTokensBought == 91660 + 80468 + 101483 + 81290 + 127831
TotalTokensSold == 482784
TotalSolSpentOnBuys == 1992 + 1992 + 1992 + 1992 + 2988
TotalSolReceivedFromSells == 16200

get_wallet_analysis(current_token_price_sol) ==
    IF Abs(TotalTokensBought - TotalTokensSold) < 1
    THEN [has_position |-> FALSE, current_tokens |-> 0,
          avg_entry_price_sol |-> Ratio(TotalSolSpentOnBuys, TotalTokensBought),
          pnl_sol |-> TotalSolReceivedFromSells - TotalSolSpentOnBuys,
          pnl_percentage |-> Ratio((TotalSolReceivedFromSells - TotalSolSpentOnBuys) * 100,
                                   TotalSolSpentOnBuys)]
    ELSE LET current_tokens == TotalTokensBought - TotalTokensSold
             pnl_sol == (current_tokens * current_token_price_sol
                         + TotalSolReceivedFromSells) - TotalSolSpentOnBuys
         IN [has_position |-> TRUE, current_tokens |-> current_tokens,
             avg_entry_price_sol |-> Ratio(TotalSolSpentOnBuys, TotalTokensBought),
             pnl_sol |-> pnl_sol,
             pnl_percentage |-> Ratio(pnl_sol * 100, TotalSolSpentOnBuys)]

\* ------------------------------------------------------------------------
\* create_enhanced_record
\* ------------------------------------------------------------------------
\* dict.update: the keys of u override those of d
Update(d, u) == u @@ d

NullLevelFields ==
    [ohlc_open |-> None, ohlc_high |-> None, ohlc_low |-> None, ohlc_close |-> None,
     wma_fib_0 |-> None, wma_fib_50 |-> None, fib_entry |-> None, atr |-> None,
     highest_high_42 |-> None, lowest_low_42 |-> None]

NullTriggerFields ==
    [trigger_armed |-> None, buy_signal |-> FALSE, reset_threshold |-> None,
     price_above_reset |-> None, price_below_entry |-> None,
     price_above_fib_0 |-> None, in_buy_zone |-> None]

NullWalletFields ==
    [wallet_position_pnl_percentage |-> None, wallet_position_pnl_sol |-> None,
     wallet_entry_price_sol |-> None, wallet_total_tokens |-> None,
     wallet_drop_to_entry_pct |-> None]

TradeStateFields(trade_state) ==
    [current_in_position |-> trade_state.in_position,
     current_trigger_on |-> trade_state.trigger_on,
     entry_price |-> trade_state.entry_price,
     position_size |-> trade_state.position_size]

\* reset_threshold = wma_fib_0 * 1.05
RecordResetThreshold(wma_fib_0) == (wma_fib_0 * 105) \div 100

\* a slip: the trigger is never reset
DisarmsNever(current_price, reset_threshold) == FALSE

\* line 322: the price is above the reset threshold
Disarms(current_price, reset_threshold) == current_price > reset_threshold

\* a slip: any price not above the reset threshold arms
TriggerArmedRearms(previous_trigger_state, current_price, reset_threshold, fib_entry) ==
    current_price =< reset_threshold

\* lines 319-326: the armed flag after this record
TriggerArmed(previous_trigger_state, current_price, reset_threshold, fib_entry) ==
    LET start == IF previous_trigger_state # None THEN previous_trigger_state[1]
                 ELSE FALSE
    IN IF Disarms(current_price, reset_threshold) THEN FALSE
       ELSE IF current_price < fib_entry THEN TRUE
       ELSE start

\* a slip: the armed flag is not consulted
BuySignalUnarmed(trigger_armed, current_price, wma_fib_0) ==
    current_price > wma_fib_0

\* lines 329-330
BuySignal(trigger_armed, current_price, wma_fib_0) ==
    trigger_armed /\ current_price > wma_fib_0

\* the record and the trigger state handed to the next record
create_enhanced_record(price_record, fib_data_map, trade_state, previous_trigger_state, wallet_data) ==
    LET window_key == Floor5min(price_record.timestamp)
    IN IF window_key \in DOMAIN fib_data_map
       THEN LET fib_data == fib_data_map[window_key]
                levels == [ohlc_open |-> Some(fib_data.open),
                           ohlc_high |-> Some(fib_data.high),
                           ohlc_low |-> Some(fib_data.low),
                           ohlc_close |-> Some(fib_data.close),
                           wma_fib_0 |-> fib_data.wma_fib_0,
                           wma_fib_50 |-> fib_data.wma_fib_50,
                           fib_entry |-> fib_data.fib_entry,
                           atr |-> fib_data.atr,
                           highest_high_42 |-> fib_data.highest_high,
                           lowest_low_42 |-> fib_data.lowest_low]
                current_price == price_record.price * Scale
                wma_fib_0 == fib_data.wma_fib_0
                fib_entry == fib_data.fib_entry
            IN IF wma_fib_0 # None /\ fib_entry # None
               THEN LET reset_threshold == RecordResetThreshold(wma_fib_0[1])
                        trigger_armed == TriggerArmed(previous_trigger_state, current_price,
                                                      reset_threshold, fib_entry[1])
                        buy_signal == BuySignal(trigger_armed, current_price, wma_fib_0[1])
                        trig == [trigger_armed |-> Some(trigger_armed),
                                 buy_signal |-> buy_signal,
                                 reset_threshold |-> Some(reset_threshold),
                                 price_above_reset |->
                                     IF reset_threshold # 0
                                     THEN Some(current_price > reset_threshold) ELSE None,
                                 price_below_entry |->
                                     IF Truthy(fib_entry)
                                     THEN Some(current_price < fib_entry[1]) ELSE None,
                                 price_above_fib_0 |->
                                     IF Truthy(wma_fib_0)
                                     THEN Some(current_price > wma_fib_0[1]) ELSE None,
                                 in_buy_zone |->
                                     IF Truthy(fib_entry) /\ Truthy(wma_fib_0)
                                     THEN Some(fib_entry[1] =< current_price
                                               /\ current_price =< wma_fib_0[1])
                                     ELSE None]
                        wallet ==
                            IF wallet_data # None /\ wallet_data[1].has_position
                            THEN [wallet_position_pnl_percentage |->
                                      Some(wallet_data[1].pnl_percentage),
                                  wallet_position_pnl_sol |-> Some(wallet_data[1].pnl_sol),
                                  wallet_entry_price_sol |->
                                      Some(wallet_data[1].avg_entry_price_sol),
                                  wallet_total_tokens |-> Some(wallet_data[1].current_tokens),
                                  wallet_drop_to_entry_pct |->
                                      IF Truthy(fib_entry) /\ current_price > fib_entry[1]
                                      THEN Some(Ratio((current_price - fib_entry[1]) * 100,
                                                      current_price))
                                      ELSE Some(Ratio(0, 1))]
                            ELSE NullWalletFields
                    \* returned at line 367, before the trading state is added
                    IN [rec |-> Update(Update(Update(price_record, levels), trig), wallet),
                        state |-> Some(trigger_armed)]
               ELSE [rec |-> Update(Update(Update(Update(price_record, levels),
                                                  NullTriggerFields), NullWalletFields),
                                    TradeStateFields(trade_state)),
                     state |-> previous_trigger_state]
       ELSE [rec |-> Update(Update(Update(Update(price_record, NullLevelFields),
                                          NullTriggerFields), NullWalletFields),
                            TradeStateFields(trade_state)),
             state |-> previous_trigger_state]

\* ------------------------------------------------------------------------
\* update_price_savant_incremental
\* ------------------------------------------------------------------------
Last(seq) == seq[Len(seq)]

\* line 442: nothing to process
NoNewRecords(current_count, count) == current_count =< count

\* line 464: the store is loaded only if it exists and the cursor is positive
LoadsExisting(file, count) == file.exists /\ count > 0

\* lines 467-475: the trigger state that seeds the batch
LastTriggerState(file, count) ==
    IF LoadsExisting(file, count)
    THEN IF file.recs # <<>> THEN Last(file.recs).trigger_armed ELSE None
    ELSE Some(FALSE)

\* a slip: the cursor is ignored and every point is taken as new
NewRecordsAll(original_data, count) == original_data

\* line 479: original_data[last_processed_count:]
NewRecords(original_data, count) ==
    SubSeq(original_data, count + 1, Len(original_data))

RECURSIVE ProcessRange(_, _, _, _, _, _, _)
\* lines 483-491 over new_records[lo..hi], entered with trigger state `state`:
\* the records, the state each was entered with, and the state left
ProcessRange(new_records, lo, hi, fib_data_map, trade_state, state, wallet_data) ==
    IF lo > hi THEN [recs |-> <<>>, prevs |-> <<>>, state |-> state]
    ELSE IF lo = hi
    THEN LET r == create_enhanced_record(new_records[lo], fib_data_map, trade_state,
                                         state, wallet_data)
         IN [recs |-> <<r.rec>>, prevs |-> <<state>>, state |-> r.state]
    ELSE LET mid == (lo + hi) \div 2
             left == ProcessRange(new_records, lo, mid, fib_data_map, trade_state,
                                  state, wallet_data)
             right == ProcessRange(new_records, mid + 1, hi, fib_data_map, trade_state,
                                   left.state, wallet_data)
         IN [recs |-> left.recs \o right.recs, prevs |-> left.prevs \o right.prevs,
             state |-> right.state]

ProcessRecords(new_records, fib_data_map, trade_state, last_trigger_state, wallet_data) ==
    ProcessRange(new_records, 1, Len(new_records), fib_data_map, trade_state,
                 last_trigger_state, wallet_data)

\* lines 395-411: every derived field null, the trading state added, the
\* state handed on as it came
ExceptRecord(price_record, trade_state, previous_trigger_state) ==
    [rec |-> Update(Update(Update(Update(price_record, NullLevelFields),
                                  NullTriggerFields), NullWalletFields),
                    TradeStateFields(trade_state)),
     state |-> previous_trigger_state]

RECURSIVE ProcessRangeRaising(_, _, _, _, _, _, _, _)
\* lines 483-491 over new_records[lo..hi] when create_enhanced_record raises
\* for the batch positions in `raising`
ProcessRangeRaising(new_records, lo, hi, fib_data_map, trade_state, state, wallet_data, raising) ==
    IF lo > hi THEN [recs |-> <<>>, prevs |-> <<>>, state |-> state]
    ELSE IF lo = hi
    THEN LET r == IF lo \in raising
                  THEN ExceptRecord(new_records[lo], trade_state, state)
                  ELSE create_enhanced_record(new_records[lo], fib_data_map, trade_state,
                                              state, wallet_data)
         IN [recs |-> <<r.rec>>, prevs |-> <<state>>, state |-> r.state]
    ELSE LET mid == (lo + hi) \div 2
             left == ProcessRangeRaising(new_records, lo, mid, fib_data_map, trade_state,
                                         state, wallet_data, raising)
             right == ProcessRangeRaising(new_records, mid + 1, hi, fib_data_map,
                                          trade_state, left.state, wallet_data, raising)
         IN [recs |-> left.recs \o right.recs, prevs |-> left.prevs \o right.prevs,
             state |-> right.state]

\* a slip: the cursor stops one short of the points read
AdvanceCursorShort(current_count) == current_count - 1

\* line 508
AdvanceCursor(current_count) == current_count

\* get_last_processed_count: 0 for a missing or unreadable file
get_last_processed_count(file) ==
    IF file.exists /\ file.complete THEN Len(file.recs) ELSE 0

\* ------------------------------------------------------------------------
\* update_chart_and_indicators: the trading logic on the latest candle
\* ------------------------------------------------------------------------
\* the configured trading parameters, in percent
Config == [fib_entry_offset_pct |-> 15, reset_pct_above_fib_0 |-> 15]

\* the dcc.Store's initial data, with no open position in the trade log
InitialTradeState ==
    [trigger_on |-> FALSE, in_position |-> FALSE, entry_price |-> None, position_size |-> 0]

\* lines 598-615 and 727; a comparison with NaN is false
TradingLogic(trade_state, latest) ==
    LET latest_close == latest.close * Scale
        defined == latest.wma_fib_0 # None /\ latest.fib_entry # None
        reset_threshold ==
            (latest.wma_fib_0[1] * (100 + Config.reset_pct_above_fib_0)) \div 100
        flat == ~trade_state.in_position
        trigger_on ==
            IF flat /\ defined /\ latest_close > reset_threshold THEN FALSE
            ELSE IF flat /\ defined /\ latest_close < latest.fib_entry[1] THEN TRUE
            ELSE trade_state.trigger_on
        buy_signal == flat /\ defined /\ trigger_on /\ latest_close > latest.wma_fib_0[1]
    IN [trigger_on |-> trigger_on,
        in_position |-> trade_state.in_position \/ buy_signal,
        entry_price |-> IF buy_signal THEN Some(latest.close) ELSE trade_state.entry_price,
        position_size |-> trade_state.position_size]

\* a slip: the signal is computed whether or not a position is open
TradingBuySignalAnyPosition(trade_state, latest) ==
    /\ latest.wma_fib_0 # None /\ latest.fib_entry # None
    /\ TradingLogic([trade_state EXCEPT !.in_position = FALSE], latest).trigger_on
    /\ latest.close * Scale > latest.wma_fib_0[1]

\* lines 599 and 610-611: the buy_signal the tick reports in
\* trade_signals.json (line 740)
TradingBuySignal(trade_state, latest) ==
    /\ ~trade_state.in_position
    /\ latest.wma_fib_0 # None /\ latest.fib_entry # None
    /\ TradingLogic(trade_state, latest).trigger_on
    /\ latest.close * Scale > latest.wma_fib_0[1]

\* ------------------------------------------------------------------------
\* State
\* ------------------------------------------------------------------------
VARIABLES
    history,                \* token_price_data_v3.json: the PricePoints
    savant,                 \* price_savant_anon.json: exists, complete (parses), recs
    trigger_file,           \* trigger2.json: None or the record it holds
    last_processed_count,   \* the dashboard's global cursor
    trade_state,            \* the dcc.Store 'trade-state-storage'
    current_trigger_state,  \* the loop variable after the last persisted batch
    prev_states,            \* per persisted record: the previous_trigger_state
                            \* its create_enhanced_record call was given
    last_tick,              \* the last callback of this process: points read,
                            \* whether update_price_savant_incremental returned
                            \* without an exception, records it appended, and
                            \* the path it took; None before the first
    in_flight,              \* per open dashboard page: the callback request it
                            \* has in flight
    indicators,             \* df_with_fibs: the indicator frame of the last indicator
                            \* computation that is observed on its own
    tracker,                \* jupiter_tracker.py: whether it runs, its price_data
    sessions,               \* the tmux sessions that exist
    manager,                \* main.py: the manager's and the stop command's position
    signal_bot,             \* trade_bot_anon.py: its globals and the alerts it sent
    pending_trades,         \* pending_trades.json: the trade commands
    bot_config              \* bot_config.json as a reader finds it

\* the state of the tracker, the supervisor and the signal bot
tracker_vars == <<tracker>>
supervisor_vars == <<sessions, manager>>
bot_vars == <<signal_bot, pending_trades, bot_config>>
components == <<tracker_vars, supervisor_vars, bot_vars>>

\* the state of the dashboard and the files it reads and writes
dashboard_vars == <<history, savant, trigger_file, last_processed_count, trade_state,
                    current_trigger_state, prev_states, last_tick, in_flight,
                    indicators>>

vars == <<dashboard_vars, components>>

WarmHistory(n) ==
    Tabulate([k \in 1..n |-> [timestamp |-> (k - 1) * BUCKET_MINUTES,
                              price |-> WarmPrice]], n)

\* the open dashboard pages, each with its own dcc.Interval timer
Clients == {1, 2}
Idle == [pc |-> "idle", trade_state |-> InitialTradeState]
NoRequests == [c \in Clients |-> Idle]

NoFile == [exists |-> FALSE, complete |-> FALSE, recs |-> <<>>]

\* the components a specification leaves aside: not started, nothing written
TrackerIdle == tracker = [up |-> FALSE, price_data |-> <<>>, file_cut |-> FALSE, now |-> 0, added |-> 0, current_api_url |-> "lite"]
SupervisorIdle ==
    /\ sessions = {}
    /\ manager = [pc |-> "off", phase |-> "start_all", i |-> 1, running |-> FALSE,
                  stop_i |-> 0]
BotIdle ==
    /\ signal_bot = [last_traded_signal_timestamp |-> None,
                     last_known_trigger_state |-> None, alerts |-> {}]
    /\ pending_trades = <<>>
    /\ bot_config = "missing"
ComponentsIdle == TrackerIdle /\ SupervisorIdle /\ BotIdle

\* the dashboard before its first callback, no store written yet
DashboardIdle ==
    /\ savant = NoFile
    /\ trigger_file = None
    /\ last_processed_count = 0
    /\ trade_state = InitialTradeState
    /\ current_trigger_state = None
    /\ prev_states = <<>>
    /\ last_tick = None
    /\ in_flight = NoRequests
    /\ indicators = <<>>

Init ==
    /\ history = WarmHistory(WarmCandles)
    /\ savant = NoFile
    /\ trigger_file = None
    /\ last_processed_count = get_last_processed_count(NoFile)
    /\ trade_state = InitialTradeState
    /\ current_trigger_state = None
    /\ prev_states = <<>>
    /\ last_tick = None
    /\ in_flight = NoRequests
    /\ indicators = <<>>
    /\ ComponentsIdle

\* ------------------------------------------------------------------------
\* The tracker: one successful poll (add_price_point, save_price_data)
\* ------------------------------------------------------------------------
AppendPoint ==
    /\ history # <<>>
    /\ Len(history) < WarmCandles + MaxNew
    /\ \E price \in Prices, step \in TsSteps :
          history' = Append(history, [timestamp |-> Last(history).timestamp + step,
                                      price |-> price])
    /\ UNCHANGED <<savant, trigger_file, last_processed_count, trade_state,
                   current_trigger_state, prev_states, last_tick, in_flight,
                   indicators, components>>

\* ------------------------------------------------------------------------
\* The dashboard callback update_chart_and_indicators with the call of
\* update_price_savant_incremental.  What it computes: the new trade state,
\* whether a batch is written, and the batch.
\* ------------------------------------------------------------------------
CallbackResultOf(data, page_state, file, cursor) ==
    LET df_with_fibs == IndicatorRows(data)
        latest == Last(df_with_fibs)
        wallet_analysis == Some(get_wallet_analysis(latest.close))
        new_state == TradingLogic(page_state, latest)
        current_count == Len(data)
        loads == LoadsExisting(file, cursor)
        existing_data == IF loads THEN file.recs ELSE <<>>
        count == IF loads THEN cursor ELSE 0
        out == ProcessRecords(NewRecords(data, count), FibDataMap(df_with_fibs),
                              new_state, LastTriggerState(file, cursor),
                              wallet_analysis)
    IN [new_state |-> new_state,
        buy_signal |-> TradingBuySignal(page_state, latest),
        current_count |-> current_count,
        \* "return": line 444; "load_error": json.load raises at line 466;
        \* "write": line 501 is reached
        path |-> IF NoNewRecords(current_count, cursor) THEN "return"
                 ELSE IF loads /\ ~file.complete THEN "load_error"
                 ELSE "write",
        existing_data |-> existing_data,
        count |-> count,
        out |-> out]

\* the callback of the page whose dcc.Store is trade_state, on the files and
\* the cursor as they are now
CallbackResult == CallbackResultOf(history, trade_state, savant, last_processed_count)

\* A store file whose JSON text was cut off: json.load raises on it, and no
\* record can be read from it.
CorruptFile == [exists |-> TRUE, complete |-> FALSE, recs |-> <<>>]

\* the callback runs to its end and the store write succeeds (or the
\* callback returns before it)
CallbackReturns(r) ==
    /\ trade_state' = r.new_state
    /\ last_tick' = Some([read |-> r.current_count, ok |-> r.path # "load_error",
                          appended |-> IF r.path = "write" THEN Len(r.out.recs) ELSE 0,
                          path |-> r.path, input |-> "ok",
                          buy_signal |-> r.buy_signal])
    /\ IF r.path = "write"
       THEN LET all == r.existing_data \o r.out.recs
            IN /\ savant' = [exists |-> TRUE, complete |-> TRUE, recs |-> all]
               /\ trigger_file' = Some(Last(all))
               /\ last_processed_count' = AdvanceCursor(r.current_count)
               /\ current_trigger_state' = r.out.state
               /\ prev_states' = SubSeq(prev_states, 1, Len(r.existing_data))
                                 \o r.out.prevs
       ELSE UNCHANGED <<savant, trigger_file, last_processed_count,
                        current_trigger_state, prev_states>>
    /\ UNCHANGED <<history, in_flight, indicators, components>>

\* the callback reaches the store write and the write raises (caught at line
\* 514): in open(), the file untouched, or in json.dump, after open() has
\* truncated the file
CallbackWriteFails(r) ==
    /\ r.path = "write"
    /\ \/ UNCHANGED savant
       \/ savant' = CorruptFile
    /\ last_processed_count' = r.count
    /\ trade_state' = r.new_state
    /\ last_tick' = Some([read |-> r.current_count, ok |-> FALSE, appended |-> 0,
                          path |-> "write_error", input |-> "ok",
                          buy_signal |-> r.buy_signal])
    /\ UNCHANGED <<history, trigger_file, current_trigger_state, prev_states, in_flight,
                   indicators, components>>

\* module start-up, lines 518-528
StartUp ==
    /\ last_processed_count' = get_last_processed_count(savant')
    /\ trade_state' = InitialTradeState
    /\ last_tick' = None

\* the process is stopped (tmux kill-session) during the store write, after
\* open() has truncated the file, and is started again
CallbackKilledInWrite(r) ==
    /\ r.path = "write"
    /\ savant' = CorruptFile
    /\ StartUp
    /\ UNCHANGED <<history, trigger_file, current_trigger_state, prev_states, in_flight,
                   indicators, components>>

\* ------------------------------------------------------------------------
\* Exceptions of the callback: what its reads and writes raise, and the
\* handler of line 751
\* ------------------------------------------------------------------------
\* the classes an exception class derives from, itself included
Bases(e) ==
    CASE e = "FileNotFoundError" -> {"FileNotFoundError", "OSError", "Exception"}
      [] e = "JSONDecodeError" -> {"JSONDecodeError", "ValueError", "Exception"}
      [] e = "ValueError" -> {"ValueError", "Exception"}
      [] e = "IndexError" -> {"IndexError", "LookupError", "Exception"}
      [] e = "OSError" -> {"OSError", "Exception"}

\* line 751: except (FileNotFoundError, json.JSONDecodeError, ValueError, IndexError)
Handled == {"FileNotFoundError", "JSONDecodeError", "ValueError", "IndexError"}
Caught(e) == Bases(e) \cap Handled # {}

\* what the callback can find when it opens the price history: no file or
\* a file holding [] before the tracker's first save; afterwards the saved
\* list, or the cut-off text of a save in progress (save_price_data
\* truncates the file and then writes the whole list)
ReadObservations(data) ==
    IF data = <<>> THEN {"missing", "empty"} ELSE {"ok", "partial"}

\* lines 557-560: the exception the read of the history raises
ReadRaises(obs) ==
    CASE obs = "missing" -> "FileNotFoundError"
      [] obs = "partial" -> "JSONDecodeError"
      [] obs = "empty" -> "ValueError"

\* lines 744-745: open(SIGNAL_FILE, 'w') or json.dump fails (disk full, no
\* permission)
SignalWriteRaises == "OSError"

\* a slip: the handler returns the state of its error record (line 752),
\* trigger off
HandlerStateCleared(page_state) == [page_state EXCEPT !.trigger_on = FALSE]

\* line 757: the handler returns the page's trade state as it came
HandlerState(page_state) == page_state

\* the callback ends in exception e before update_price_savant_incremental
\* is called: the handler runs if the exception is one of its classes,
\* else the exception leaves the callback and the page's dcc.Store is not
\* updated
CallbackRaises(e, obs, read) ==
    /\ trade_state' = IF Caught(e) THEN HandlerState(trade_state) ELSE trade_state
    /\ last_tick' = Some([read |-> read, ok |-> FALSE, appended |-> 0,
                          path |-> IF Caught(e) THEN "handled" ELSE "uncaught",
                          input |-> obs, buy_signal |-> FALSE])
    /\ UNCHANGED <<history, savant, trigger_file, last_processed_count,
                   current_trigger_state, prev_states, in_flight, indicators, components>>

\* the price history is not ready
CallbackNotReady ==
    \E obs \in ReadObservations(history) \ {"ok"} : CallbackRaises(ReadRaises(obs), obs, 0)

\* the history is read and the write of trade_signals.json fails
CallbackSignalWriteFails ==
    /\ "ok" \in ReadObservations(history)
    /\ CallbackRaises(SignalWriteRaises, "ok", Len(history))

\* the store is written and the write of the snapshot fails in open(),
\* caught at line 429: the snapshot keeps its content, the cursor advances
CallbackSnapshotFails(r) ==
    /\ r.path = "write"
    /\ savant' = [exists |-> TRUE, complete |-> TRUE,
                  recs |-> r.existing_data \o r.out.recs]
    /\ last_processed_count' = AdvanceCursor(r.current_count)
    /\ current_trigger_state' = r.out.state
    /\ prev_states' = SubSeq(prev_states, 1, Len(r.existing_data)) \o r.out.prevs
    /\ trade_state' = r.new_state
    /\ last_tick' = Some([read |-> r.current_count, ok |-> TRUE,
                          appended |-> Len(r.out.recs), path |-> "write",
                          input |-> "ok", buy_signal |-> r.buy_signal])
    /\ UNCHANGED <<history, trigger_file, in_flight, indicators, components>>

\* one firing of the dcc.Interval: update_chart_and_indicators reads the
\* history and runs to the store write
Callback ==
    /\ "ok" \in ReadObservations(history)
    /\ \E r \in {CallbackResult} :
          \/ CallbackReturns(r)
          \/ CallbackWriteFails(r)
          \/ CallbackKilledInWrite(r)

\* one firing in which every write succeeds, or only the snapshot's fails
CallbackCompletes ==
    /\ "ok" \in ReadObservations(history)
    /\ \E r \in {CallbackResult} :
          \/ CallbackReturns(r)
          \/ CallbackSnapshotFails(r)

\* the process is stopped between two callbacks and is started again
Restart ==
    /\ savant' = savant
    /\ StartUp
    /\ UNCHANGED <<history, trigger_file, current_trigger_state, prev_states, in_flight,
                   indicators, components>>

Next ==
    \/ AppendPoint
    \/ Callback
    \/ Restart

Spec == Init /\ [][Next]_vars

\* ------------------------------------------------------------------------
\* Callback requests of several open pages.  Each page's dcc.Interval posts
\* a request every APP_REFRESH_SECONDS whether or not an earlier request
\* has been answered, the server handles each request on its own thread,
\* and the callback takes no lock: the steps of two requests interleave.
\* ------------------------------------------------------------------------
\* lines 557-558: the request reads the price history (its page's
\* dcc.Store came with the request)
RequestReads(c) ==
    /\ in_flight[c].pc = "idle"
    /\ "ok" \in ReadObservations(history)
    /\ in_flight' = [in_flight EXCEPT ![c] =
                        [pc |-> "read", trade_state |-> in_flight[c].trade_state,
                         data |-> history]]
    /\ UNCHANGED <<history, savant, trigger_file, last_processed_count, trade_state,
                   current_trigger_state, prev_states, last_tick, indicators, components>>

\* lines 562-747 and 439-491: indicators, trading logic, cursor check, store load and
\* the batch, all from what the request has read and the cursor and store
\* as they are now
RequestLoads(c) ==
    /\ in_flight[c].pc = "read"
    /\ \E r \in {CallbackResultOf(in_flight[c].data, in_flight[c].trade_state,
                                  savant, last_processed_count)} :
          IF r.path = "write"
          THEN /\ in_flight' = [in_flight EXCEPT ![c] =
                                   [pc |-> "write", trade_state |-> r.new_state,
                                    current_count |-> r.current_count,
                                    existing_data |-> r.existing_data,
                                    existing_prevs |->
                                        SubSeq(prev_states, 1, Len(r.existing_data)),
                                    out |-> r.out]]
               \* line 474
               /\ last_processed_count' = r.count
          ELSE /\ in_flight' = [in_flight EXCEPT ![c] =
                                   [pc |-> "idle", trade_state |-> r.new_state]]
               /\ UNCHANGED last_processed_count
    /\ UNCHANGED <<history, savant, trigger_file, trade_state,
                   current_trigger_state, prev_states, last_tick, indicators, components>>

\* lines 501-508 and the callback's return
RequestWrites(c) ==
    /\ in_flight[c].pc = "write"
    /\ LET all == in_flight[c].existing_data \o in_flight[c].out.recs
       IN /\ savant' = [exists |-> TRUE, complete |-> TRUE, recs |-> all]
          /\ trigger_file' = Some(Last(all))
    /\ last_processed_count' = AdvanceCursor(in_flight[c].current_count)
    /\ current_trigger_state' = in_flight[c].out.state
    /\ prev_states' = in_flight[c].existing_prevs \o in_flight[c].out.prevs
    /\ in_flight' = [in_flight EXCEPT ![c] =
                        [pc |-> "idle", trade_state |-> in_flight[c].trade_state]]
    /\ UNCHANGED <<history, trade_state, last_tick, indicators, components>>

OverlapNext ==
    \/ AppendPoint
    \/ \E c \in Clients : RequestReads(c)
    \/ \E c \in Clients : RequestLoads(c)
    \/ \E c \in Clients : RequestWrites(c)

OverlapSpec == Init /\ [][OverlapNext]_vars

\* ------------------------------------------------------------------------
\* The callback under failures of its input and of its side outputs (the
\* signal file, the snapshot), from a cold or a warm start.  The dashboard
\* is first started either before the tracker has saved a PricePoint (no
\* history file yet, or one holding []) or when the history already holds
\* WarmCandles points.
\* ------------------------------------------------------------------------
FaultInit ==
    /\ history \in {<<>>, WarmHistory(WarmCandles)}
    /\ savant = NoFile
    /\ trigger_file = None
    /\ last_processed_count = get_last_processed_count(NoFile)
    /\ trade_state = InitialTradeState
    /\ current_trigger_state = None
    /\ prev_states = <<>>
    /\ last_tick = None
    /\ in_flight = NoRequests
    /\ indicators = <<>>
    /\ ComponentsIdle

FaultNext ==
    \/ AppendPoint
    \/ CallbackCompletes
    \/ CallbackNotReady
    \/ CallbackSignalWriteFails

FaultSpec == FaultInit /\ [][FaultNext]_vars

\* one firing in which the history is read and every write succeeds
CallbackSucceeds ==
    /\ "ok" \in ReadObservations(history)
    /\ \E r \in {CallbackResult} : CallbackReturns(r)

\* The callback with a price history that is at times not ready, all else
\* succeeding
NotReadyNext ==
    \/ AppendPoint
    \/ CallbackSucceeds
    \/ CallbackNotReady

NotReadySpec == FaultInit /\ [][NotReadyNext]_vars

\* ------------------------------------------------------------------------
\* The indicator frame on its own (lines 562-586): the candles of a price
\* history that is short or nearly long enough for the levels, followed by
\* points of a market that swings, and the frame df_with_fibs computed from
\* the history as it stands.
\* ------------------------------------------------------------------------
IndicatorInit ==
    /\ history \in {WarmHistory(ShortCandles), WarmHistory(WarmCandles - 1)}
    /\ savant = NoFile
    /\ trigger_file = None
    /\ last_processed_count = get_last_processed_count(NoFile)
    /\ trade_state = InitialTradeState
    /\ current_trigger_state = None
    /\ prev_states = <<>>
    /\ last_tick = None
    /\ in_flight = NoRequests
    /\ indicators = <<>>
    /\ ComponentsIdle

\* the tracker: one successful poll while the market swings
AppendSwing ==
    /\ \/ Len(history) < ShortCandles + MaxNew + 1
       \/ /\ Len(history) >= WarmCandles - 1
          /\ Len(history) < WarmCandles + MaxNew
    /\ \E price \in SwingPrices, step \in SwingSteps :
          history' = Append(history, [timestamp |-> Last(history).timestamp + step,
                                      price |-> price])
    /\ UNCHANGED <<savant, trigger_file, last_processed_count, trade_state,
                   current_trigger_state, prev_states, last_tick, in_flight,
                   indicators, components>>

\* lines 562-586 of the callback: candles, levels, atr, fib_entry
ComputeIndicators ==
    /\ \E rows \in {IndicatorRows(history)} : indicators' = rows
    /\ UNCHANGED <<history, savant, trigger_file, last_processed_count,
                   trade_state, current_trigger_state, prev_states, last_tick,
                   in_flight, components>>

IndicatorNext ==
    \/ AppendSwing
    \/ ComputeIndicators

IndicatorSpec == IndicatorInit /\ [][IndicatorNext]_vars

\* ------------------------------------------------------------------------
\* The tracker (jupiter_tracker.py) and the price history file.  `history`
\* is the list a reader can load from token_price_data_v3.json; while the
\* file holds the cut-off text of a save that did not finish, no point can
\* be read from it (tracker.file_cut).  tracker.now is the wall clock in
\* minutes, tracker.added counts the points added since the start of the
\* model's run.
\* ------------------------------------------------------------------------
TrackerInit ==
    /\ history = WarmHistory(ShortCandles)
    /\ tracker = [up |-> FALSE, price_data |-> <<>>, file_cut |-> FALSE,
                  now |-> Last(WarmHistory(ShortCandles)).timestamp, added |-> 0,
                  current_api_url |-> "lite"]
    /\ DashboardIdle
    /\ SupervisorIdle
    /\ BotIdle

\* load_existing_data: the file's list, or [] if the file cannot be parsed
\* (line 47) or does not exist (line 17)
load_existing_data(file, file_cut) == IF file_cut THEN <<>> ELSE file

\* __init__: the tracker process starts
TrackerStarts ==
    /\ ~tracker.up
    /\ tracker' = [tracker EXCEPT !.up = TRUE,
                       !.price_data = load_existing_data(history, tracker.file_cut),
                       !.current_api_url = "lite"]
    /\ UNCHANGED <<dashboard_vars, supervisor_vars, bot_vars>>

\* add_price_point at the wall clock advanced by step
AddPricePoint(price, step) ==
    [tracker EXCEPT !.price_data = Append(tracker.price_data,
                                          [timestamp |-> tracker.now + step,
                                           price |-> price]),
                    !.now = tracker.now + step,
                    !.added = tracker.added + 1]

\* the rest of the dashboard's state, which the tracker does not touch
dashboard_rest == <<savant, trigger_file, last_processed_count, trade_state,
                    current_trigger_state, prev_states, last_tick, in_flight,
                    indicators>>

\* one round of run() whose fetch and save succeed (lines 173-177)
PollSucceeds ==
    /\ tracker.up
    /\ tracker.added < MaxNew + 1
    /\ \E price \in Prices, step \in SwingSteps :
          \E t \in {AddPricePoint(price, step)} :
             /\ tracker' = [t EXCEPT !.file_cut = FALSE]
             /\ history' = t.price_data
    /\ UNCHANGED <<dashboard_rest, supervisor_vars, bot_vars>>

\* one round whose save raises (caught at line 136): in open(), the file
\* untouched, or in json.dump, after open() has truncated the file
PollSaveFails ==
    /\ tracker.up
    /\ tracker.added < MaxNew + 1
    /\ \E price \in Prices, step \in SwingSteps :
          \E t \in {AddPricePoint(price, step)} :
             \/ tracker' = t /\ UNCHANGED history
             \/ tracker' = [t EXCEPT !.file_cut = TRUE] /\ history' = <<>>
    /\ UNCHANGED <<dashboard_rest, supervisor_vars, bot_vars>>

\* the ways a fetch fails: an exception of requests, HTTP 429, a reply
\* without the token's or SOL's data (lines 74-91, 109-114)
FetchFailures == {"network", "rate_limited", "no_data"}

\* lines 74-79: a rate-limited lite API is left for the pro API
ApiAfter(current_api_url, failure) ==
    IF failure = "rate_limited" THEN "pro" ELSE current_api_url

\* one round whose fetch fails: get_prices_from_jupiter_v3 returns None
\* (line 179) and the round only sleeps
PollFetchFails ==
    /\ tracker.up
    /\ \E failure \in FetchFailures :
          tracker' = [tracker EXCEPT !.current_api_url =
                                         ApiAfter(tracker.current_api_url, failure)]
    /\ UNCHANGED <<history, dashboard_rest, supervisor_vars, bot_vars>>

\* Ctrl+C: KeyboardInterrupt ends run(), whose finally clause saves
TrackerInterrupted ==
    /\ tracker.up
    /\ tracker' = [tracker EXCEPT !.up = FALSE, !.file_cut = FALSE]
    /\ history' = tracker.price_data
    /\ UNCHANGED <<dashboard_rest, supervisor_vars, bot_vars>>

\* tmux kill-session (main.py, kill_tmux_session) ends the process between
\* two rounds: nothing is saved
TrackerKilled ==
    /\ tracker.up
    /\ tracker' = [tracker EXCEPT !.up = FALSE]
    /\ UNCHANGED <<history, dashboard_rest, supervisor_vars, bot_vars>>

\* tmux kill-session ends the process during a round's save, after open()
\* has truncated the file
TrackerKilledInSave ==
    /\ tracker.up
    /\ tracker.added < MaxNew + 1
    /\ \E price \in Prices, step \in SwingSteps :
          tracker' = [AddPricePoint(price, step) EXCEPT !.up = FALSE, !.file_cut = TRUE]
    /\ history' = <<>>
    /\ UNCHANGED <<dashboard_rest, supervisor_vars, bot_vars>>

TrackerNext ==
    \/ TrackerStarts
    \/ PollSucceeds
    \/ PollSaveFails
    \/ PollFetchFails
    \/ TrackerInterrupted
    \/ TrackerKilled
    \/ TrackerKilledInSave

TrackerSpec == TrackerInit /\ [][TrackerNext]_vars

\* ------------------------------------------------------------------------
\* The supervisor (main.py).  manager.pc is the manager's position: "off"
\* before it is run, "check" before tmux has-session for component
\* processes_info[manager.i], "start" before tmux new-session for it,
\* "sleep" between two monitoring rounds, "done" after run() has ended;
\* manager.phase tells start_all_processes from monitor_processes;
\* manager.stop_i is the position of a run of `main.py stop` (0: none).
\* A tmux session ends when its component's process exits.
\* ------------------------------------------------------------------------
\* lines 29-34
TMUX_SESSIONS == <<"jupiter_tracker", "dashboard_anon", "signal_bot_anon", "jupiter_executor">>

\* a slip: only the Python components are looked after
processes_info_python == SubSeq(TMUX_SESSIONS, 1, 3)

\* lines 181-186 (and 145-150): the components a round goes through
processes_info == TMUX_SESSIONS

SupervisorInit ==
    /\ history = WarmHistory(ShortCandles)
    /\ DashboardIdle
    /\ TrackerIdle
    /\ SupervisorIdle
    /\ BotIdle

\* a slip: the session is never found
tmux_session_absent(session_name) == FALSE

\* lines 70-73: tmux has-session
tmux_session_exists(session_name) == session_name \in sessions

\* the manager's position after it is through with component manager.i
AfterComponent(m) ==
    IF m.i < Len(processes_info) THEN [m EXCEPT !.pc = "check", !.i = m.i + 1]
    ELSE IF m.phase = "start_all"
    \* show_status, then monitor_processes: while self.running
    THEN IF m.running THEN [m EXCEPT !.pc = "check", !.phase = "monitor", !.i = 1]
         ELSE [m EXCEPT !.pc = "done"]
    ELSE [m EXCEPT !.pc = "sleep"]

\* a slip: the manager's exit kills the sessions
ManagerExitKills(existing) == {}

\* lines 294-297: the finally clause of run() only logs
ManagerExit(existing) == existing

\* the sessions after the manager has moved from m to n
SessionsAfter(m, n) ==
    IF n.pc = "done" /\ m.pc # "done" THEN ManagerExit(sessions) ELSE sessions

\* `python3 main.py` is run (again)
ManagerRuns ==
    /\ manager.pc \in {"off", "done"}
    /\ manager' = [manager EXCEPT !.pc = "check", !.phase = "start_all", !.i = 1,
                                  !.running = TRUE]
    /\ UNCHANGED <<sessions, dashboard_vars, tracker_vars, bot_vars>>

\* lines 154 and 191: the session is looked for; found, the component is
\* passed over
ManagerChecks ==
    /\ manager.pc = "check"
    /\ \E n \in {IF tmux_session_exists(processes_info[manager.i])
                 THEN AfterComponent(manager)
                 ELSE [manager EXCEPT !.pc = "start"]} :
          /\ manager' = n
          /\ sessions' = SessionsAfter(manager, n)
    /\ UNCHANGED <<dashboard_vars, tracker_vars, bot_vars>>

\* start_python_process / start_node_process: tmux new-session succeeds
ManagerStarts ==
    /\ manager.pc = "start"
    /\ processes_info[manager.i] \notin sessions
    /\ \E n \in {AfterComponent(manager)} :
          /\ manager' = n
          /\ sessions' = SessionsAfter(manager, n) \cup {processes_info[manager.i]}
    /\ UNCHANGED <<dashboard_vars, tracker_vars, bot_vars>>

\* the start fails (script missing, tmux error): start_all_processes gives
\* up (line 169) and run() returns, monitor_processes goes on
ManagerStartFails ==
    /\ manager.pc = "start"
    /\ \E n \in {IF manager.phase = "start_all" THEN [manager EXCEPT !.pc = "done"]
                 ELSE AfterComponent(manager)} :
          /\ manager' = n
          /\ sessions' = SessionsAfter(manager, n)
    /\ UNCHANGED <<dashboard_vars, tracker_vars, bot_vars>>

\* lines 179 and 197: after the sleep the loop goes on while self.running
ManagerWakes ==
    /\ manager.pc = "sleep"
    /\ \E n \in {IF manager.running THEN [manager EXCEPT !.pc = "check", !.i = 1]
                 ELSE [manager EXCEPT !.pc = "done"]} :
          /\ manager' = n
          /\ sessions' = SessionsAfter(manager, n)
    /\ UNCHANGED <<dashboard_vars, tracker_vars, bot_vars>>

\* signal_handler: Ctrl+C, SIGINT or SIGTERM
ManagerSignalled ==
    /\ manager.pc \notin {"off", "done"}
    /\ manager.running
    /\ manager' = [manager EXCEPT !.running = FALSE]
    /\ UNCHANGED <<sessions, dashboard_vars, tracker_vars, bot_vars>>

\* `python3 main.py stop` is run
StopCommandRuns ==
    /\ manager.stop_i = 0
    /\ manager' = [manager EXCEPT !.stop_i = 1]
    /\ UNCHANGED <<sessions, dashboard_vars, tracker_vars, bot_vars>>

\* stop_all_processes: kill_tmux_session for the next component
StopCommandKills ==
    /\ manager.stop_i > 0
    /\ sessions' = sessions \ {TMUX_SESSIONS[manager.stop_i]}
    /\ manager' = [manager EXCEPT !.stop_i = IF manager.stop_i < Len(TMUX_SESSIONS)
                                             THEN manager.stop_i + 1 ELSE 0]
    /\ UNCHANGED <<dashboard_vars, tracker_vars, bot_vars>>

\* a component's process exits and its session with it
SessionExits ==
    /\ \E c \in sessions : sessions' = sessions \ {c}
    /\ UNCHANGED <<manager, dashboard_vars, tracker_vars, bot_vars>>

SupervisorNext ==
    \/ ManagerRuns
    \/ ManagerChecks
    \/ ManagerStarts
    \/ ManagerStartFails
    \/ ManagerWakes
    \/ ManagerSignalled
    \/ StopCommandRuns
    \/ StopCommandKills
    \/ SessionExits

SupervisorSpec == SupervisorInit /\ [][SupervisorNext]_vars

\* The supervisor when every start succeeds; the manager takes its steps
\* (it is never blocked for good)
SupervisedNext ==
    \/ ManagerRuns
    \/ ManagerChecks
    \/ ManagerStarts
    \/ ManagerWakes
    \/ ManagerSignalled
    \/ StopCommandRuns
    \/ StopCommandKills
    \/ SessionExits

SupervisedSpec ==
    /\ SupervisorInit
    /\ [][SupervisedNext]_vars
    /\ WF_vars(ManagerChecks)
    /\ WF_vars(ManagerStarts)
    /\ WF_vars(ManagerWakes)

\* ------------------------------------------------------------------------
\* The signal bot (trade_bot_anon.py) beside the dashboard.  The bot polls
\* the tail of the record store every CHECK_INTERVAL_SECONDS; the dashboard
\* rewrites the whole store (open('w'), json.dump) when there are new
\* PricePoints.  signal_bot.alerts is the set of distinct alerts sent so
\* far; a command of pending_trades carries in `signal` the timestamp of
\* the record it was made from.
\* ------------------------------------------------------------------------
ConfigStates == {"missing", "unreadable", "disabled", "enabled"}

SignalInit ==
    /\ history = Append(WarmHistory(WarmCandles),
                        [timestamp |-> WarmCandles * BUCKET_MINUTES, price |-> DipPrice])
    /\ DashboardIdle
    /\ TrackerIdle
    /\ SupervisorIdle
    /\ BotIdle

\* the tracker adds the PricePoint of the next bucket
AppendRally ==
    /\ Len(history) < WarmCandles + 1 + MaxNew + 1
    /\ \E price \in RallyPrices :
          history' = Append(history, [timestamp |-> Last(history).timestamp + BUCKET_MINUTES,
                                      price |-> price])
    /\ UNCHANGED <<savant, trigger_file, last_processed_count, trade_state,
                   current_trigger_state, prev_states, last_tick, in_flight,
                   indicators, components>>

\* lines 178-211: the last complete JSON object of the file's text
read_last_savant_record(file) ==
    IF file.exists /\ file.recs # <<>> THEN Some(Last(file.recs)) ELSE None

\* what a reader finds while json.dump writes `all` after open('w') has
\* truncated the file: the text is cut off inside a record (no complete
\* last object) or right after record k (record k is the last object)
PartialReads(all) == {None} \cup {Some(all[k]) : k \in 1..Len(all)}

\* a slip: anything but an explicit "enabled": false counts as enabled
ConfigEnablesUnlessOff(cfg) == cfg # "disabled"

\* lines 1311-1318 and 363-375: trading.enabled as read from bot_config.json;
\* a missing or unreadable file counts as not enabled
ConfigEnables(cfg) == cfg = "enabled"

\* lines 356-425: the BUY command is appended to pending_trades.json; when
\* building or writing it raises (lines 421-425) False is returned
trigger_buy_trade(cfg, price, savant_data, pending, raises) ==
    IF ConfigEnables(cfg) /\ ~raises
    THEN [ok |-> TRUE,
          pending |-> Append(pending, [command |-> "BUY",
                                       current_price |-> price,
                                       trigger_armed |-> savant_data.trigger_armed,
                                       processed |-> FALSE,
                                       signal |-> savant_data.timestamp])]
    ELSE [ok |-> FALSE, pending |-> pending]

\* a slip: the state last alerted on is not consulted
TriggerStateChangedAlways(current_trigger_armed, last_known) ==
    current_trigger_armed # None

\* line 1287: the trigger state read is not null and not the one last
\* alerted on
TriggerStateChanged(current_trigger_armed, last_known) ==
    current_trigger_armed # None /\ current_trigger_armed # last_known

\* a slip: the timestamp of the last signal handled is not consulted
NewSignalAlways(rec, last_traded) == rec.buy_signal

\* lines 1303-1304: a buy signal not handled yet
NewSignal(rec, last_traded) ==
    rec.buy_signal /\ Some(rec.timestamp) # last_traded

\* lines 1281-1345: one run of monitor_signals on what it has read; `sent`
\* are the alerts of this run
monitor_signals(bot, cfg, pending, latest_record, raises) ==
    IF latest_record = None THEN [bot |-> bot, pending |-> pending, sent |-> {}]
    ELSE LET rec == latest_record[1]
             current_trigger_armed == rec.trigger_armed
             changed == TriggerStateChanged(current_trigger_armed,
                                            bot.last_known_trigger_state)
             state_alerts == IF changed
                             THEN {[kind |-> IF current_trigger_armed[1] THEN "armed"
                                             ELSE "disarmed",
                                    timestamp |-> None]}
                             ELSE {}
             known == IF changed THEN current_trigger_armed
                      ELSE bot.last_known_trigger_state
             new_signal == NewSignal(rec, bot.last_traded_signal_timestamp)
             trade == IF new_signal /\ ConfigEnables(cfg)
                      THEN trigger_buy_trade(cfg, rec.price, rec, pending, raises)
                      ELSE [ok |-> FALSE, pending |-> pending]
             buy_alerts == IF ~new_signal THEN {}
                           ELSE {[kind |-> IF ~ConfigEnables(cfg) THEN "detected"
                                           ELSE IF trade.ok THEN "executed" ELSE "failed",
                                  timestamp |-> Some(rec.timestamp)]}
         IN [bot |-> [last_traded_signal_timestamp |->
                          IF new_signal THEN Some(rec.timestamp)
                          ELSE bot.last_traded_signal_timestamp,
                      last_known_trigger_state |-> known,
                      alerts |-> bot.alerts \cup state_alerts \cup buy_alerts],
             pending |-> trade.pending,
             sent |-> state_alerts \cup buy_alerts]

\* the bot's poll when what it has read is one of `observations`
BotHandles(observations) ==
    /\ \E r \in {monitor_signals(signal_bot, bot_config, pending_trades, latest_record,
                                     raises) :
                     latest_record \in observations, raises \in BOOLEAN} :
          /\ Len(r.pending) =< MaxCommands
          /\ signal_bot' = r.bot
          /\ pending_trades' = r.pending
    /\ UNCHANGED <<bot_config, tracker_vars, supervisor_vars>>

\* a poll that finds the store as the last finished write left it
BotPolls ==
    /\ "polled" \notin DOMAIN in_flight[1]
    /\ BotHandles({read_last_savant_record(savant)})
    /\ UNCHANGED dashboard_vars

\* a poll while the dashboard's write (lines 501-502) is under way; the
\* write is over long before the next poll, CHECK_INTERVAL_SECONDS later
BotPollsDuringWrite ==
    /\ in_flight[1].pc = "write"
    /\ "polled" \notin DOMAIN in_flight[1]
    /\ BotHandles(PartialReads(in_flight[1].existing_data \o in_flight[1].out.recs))
    /\ in_flight' = [in_flight EXCEPT ![1] = Update(in_flight[1], [polled |-> TRUE])]
    /\ UNCHANGED <<history, savant, trigger_file, last_processed_count, trade_state,
                   current_trigger_state, prev_states, last_tick, indicators>>

\* bot_config.json is edited, removed or damaged
EditConfig ==
    /\ \E cfg \in ConfigStates \ {bot_config} : bot_config' = cfg
    /\ UNCHANGED <<signal_bot, pending_trades, dashboard_vars, tracker_vars,
                   supervisor_vars>>

SignalNext ==
    \/ AppendRally
    \/ RequestReads(1)
    \/ RequestLoads(1)
    \/ RequestWrites(1)
    \/ BotPolls
    \/ BotPollsDuringWrite
    \/ EditConfig

SignalSpec == SignalInit /\ [][SignalNext]_vars

\* The bot in alert-only mode beside the dashboard, its polls between the
\* dashboard's writes; the dashboard's timer and the bot's task loop keep
\* firing
DeliveryNext ==
    \/ AppendRally
    \/ RequestReads(1)
    \/ RequestLoads(1)
    \/ RequestWrites(1)
    \/ BotPolls

SignalLiveSpec ==
    /\ SignalInit
    /\ [][DeliveryNext]_vars
    /\ WF_vars(RequestReads(1))
    \* a request that has read is always able to go on: it does go on
    /\ []<>(in_flight[1].pc # "read")
    /\ WF_vars(RequestWrites(1))
    /\ WF_vars(BotPolls)

\* ------------------------------------------------------------------------
\* Records whose processing raises inside create_enhanced_record (a
\* PricePoint the trigger logic cannot compare, say): the except clause of
\* lines 395-411 gives the record.  last_tick.raised are the store
\* positions of the records that raised.
\* ------------------------------------------------------------------------
\* the batch of the callback on `data` when the records at the store
\* positions `raised` raise; base is the callback's result otherwise
BatchRaising(data, df_with_fibs, base, file, cursor, raised) ==
    IF raised = {} THEN base.out
    ELSE ProcessRangeRaising(NewRecords(data, base.count), 1, Len(data) - base.count,
                             FibDataMap(df_with_fibs), base.new_state,
                             LastTriggerState(file, cursor),
                             Some(get_wallet_analysis(Last(df_with_fibs).close)),
                             {k - base.count : k \in raised})

\* the positions that have raised so far
RaisedSoFar == IF last_tick = None THEN {} ELSE last_tick[1].raised

\* one callback; among the new PricePoints added after the warm-up, those
\* of `raised` raise
CallbackRecordsRaise ==
    \E base \in {CallbackResult}, df_with_fibs \in {IndicatorRows(history)} :
       \E raised \in SUBSET ((IF base.count > WarmCandles THEN base.count
                               ELSE WarmCandles) + 1..Len(history)) :
          \E out \in {BatchRaising(history, df_with_fibs, base, savant,
                                    last_processed_count, raised)} :
             /\ base.path = "write" \/ raised = {}
             /\ trade_state' = base.new_state
             /\ last_tick' = Some([read |-> base.current_count, ok |-> TRUE,
                                   appended |-> IF base.path = "write" THEN Len(out.recs)
                                                ELSE 0,
                                   path |-> base.path, input |-> "ok",
                                   buy_signal |-> base.buy_signal,
                                   raised |-> RaisedSoFar \cup raised])
             /\ IF base.path = "write"
                THEN \E all \in {base.existing_data \o out.recs} :
                        /\ savant' = [exists |-> TRUE, complete |-> TRUE, recs |-> all]
                        /\ trigger_file' = Some(Last(all))
                        /\ last_processed_count' = AdvanceCursor(base.current_count)
                        /\ current_trigger_state' = out.state
                        /\ prev_states' = SubSeq(prev_states, 1, Len(base.existing_data))
                                          \o out.prevs
                ELSE UNCHANGED <<savant, trigger_file, last_processed_count,
                                 current_trigger_state, prev_states>>
             /\ UNCHANGED <<history, in_flight, indicators, components>>

RecordFaultNext ==
    \/ AppendRally
    \/ CallbackRecordsRaise

RecordFaultSpec == SignalInit /\ [][RecordFaultNext]_vars

\* ------------------------------------------------------------------------
\* Properties
\* ------------------------------------------------------------------------
StoreOK == savant.exists /\ savant.complete
Recs == savant.recs
IsPrefix(a, b) == Len(a) =< Len(b) /\ SubSeq(b, 1, Len(a)) = a
\* a trigger state as line 319 reads it: None counts as not armed
AsBool(x) == x = Some(TRUE)
NullIndicators(rec) == rec.wma_fib_0 = None \/ rec.fib_entry = None

TypeOK ==
    /\ last_processed_count \in 0..(WarmCandles + MaxNew)
    /\ savant.exists \in BOOLEAN
    /\ savant.complete \in BOOLEAN
    /\ StoreOK => Len(prev_states) = Len(Recs)
    /\ trade_state.trigger_on \in BOOLEAN
    /\ trade_state.in_position \in BOOLEAN

\* the PricePoint, candle, indicator and trigger fields of a record
CoreNames ==
    {"timestamp", "price", "ohlc_open", "ohlc_high", "ohlc_low", "ohlc_close",
     "wma_fib_0", "wma_fib_50", "fib_entry", "atr", "highest_high_42", "lowest_low_42",
     "trigger_armed", "buy_signal", "reset_threshold", "price_above_reset",
     "price_below_entry", "price_above_fib_0", "in_buy_zone"}
Core(rec) == [n \in CoreNames |-> rec[n]]

\* what one run of update_price_savant_incremental over the whole history,
\* from an empty store, writes (with the callback's current arguments)
OnePass ==
    LET df_with_fibs == IndicatorRows(history)
        latest == Last(df_with_fibs)
    IN ProcessRecords(history, FibDataMap(df_with_fibs),
                      TradingLogic(trade_state, latest), Some(FALSE),
                      Some(get_wallet_analysis(latest.close))).recs

\* C1: batch/incremental equivalence.  Whenever the store holds a record for
\* every point of the history, however many passes wrote it, its records
\* agree field for field (PricePoint, candle, indicator and trigger fields)
\* with the records of one pass over the whole history.
C1_BatchIncrementalEquivalence ==
    (StoreOK /\ Len(Recs) = Len(history)) =>
        \E one \in {OnePass} : \A i \in DOMAIN Recs : Core(Recs[i]) = Core(one[i])

\* C2: restart continuity.  The trigger state a batch or a restarted process
\* seeds from the store's last record is the state the machine holds after
\* that record, also when the record has null indicator fields.
C2_RestartContinuity ==
    (StoreOK /\ Recs # <<>>) =>
        AsBool(LastTriggerState(savant, Len(Recs))) = AsBool(current_trigger_state)

\* C3: idempotence of re-tick.  After a callback that returned without error
\* having read the current history, any further step of the dashboard on the
\* same history appends nothing and leaves the store, the snapshot, the
\* cursor and the trigger state as they are.
C3_RetickIdempotent ==
    [][(/\ last_tick # None
        /\ last_tick[1].ok
        /\ last_tick[1].read = Len(history)
        /\ history' = history)
       => /\ savant' = savant
          /\ trigger_file' = trigger_file
          /\ last_processed_count' = last_processed_count
          /\ current_trigger_state' = current_trigger_state
          /\ (last_tick' # None => last_tick'[1].appended = 0)]_vars

\* a second callback has run on a history the first had fully processed
C3_Witness ==
    /\ last_tick # None
    /\ last_tick[1].ok
    /\ last_tick[1].read = Len(history)
    /\ last_tick[1].appended = 0
    /\ StoreOK
    /\ Len(Recs) = Len(history)
    /\ Len(history) > WarmCandles

\* the records a reader of the store file gets
StoreRecords(file) == IF file.exists /\ file.complete THEN file.recs ELSE <<>>

\* C4: monotonic append-only store.  No step removes or changes a record
\* of the store: the records readable before a step are a prefix of those
\* readable after it.
C4_AppendOnly == [][IsPrefix(StoreRecords(savant), StoreRecords(savant'))]_vars

\* the cursor and the trigger state a process would recover from the store
PersistedCursor(file) == get_last_processed_count(file)
PersistedTrigger(file) ==
    IF file.exists /\ file.complete /\ file.recs # <<>>
    THEN <<Last(file.recs).trigger_armed>>
    ELSE <<>>

\* C5: append-then-advance.  Every step either appends the whole batch and
\* then sets the cursor to len(history), or leaves the cursor and the
\* recoverable trigger state at their values before the step.
C5_AppendThenAdvance ==
    [][\/ /\ savant'.exists /\ savant'.complete
          /\ Len(savant'.recs) = Len(history)
          /\ last_processed_count' = Len(history)
       \/ /\ last_processed_count' = last_processed_count
          /\ PersistedCursor(savant') = PersistedCursor(savant)
          /\ PersistedTrigger(savant') = PersistedTrigger(savant)]_vars

\* C6: all-or-nothing append.  Every step leaves the store file as it was or
\* leaves it complete, holding the earlier records followed by the whole
\* batch.
C6_AllOrNothing ==
    [][\/ savant' = savant
       \/ /\ savant'.exists /\ savant'.complete
          /\ IsPrefix(savant.recs, savant'.recs)
          /\ Len(savant'.recs) = Len(history)]_vars

\* the transition of the claim, with the configured reset percentage
ConfiguredResetThreshold(wma_fib_0) ==
    (wma_fib_0 * (100 + Config.reset_pct_above_fib_0)) \div 100
ClaimedTransition(prior, current_price, wma_fib_0, fib_entry) ==
    IF current_price > ConfiguredResetThreshold(wma_fib_0) THEN FALSE
    ELSE IF current_price < fib_entry THEN TRUE
    ELSE AsBool(prior)

\* C7: trigger transition function.  Every record with non-null wma_fib_0 and
\* fib_entry carries the state the transition function yields from the state
\* the record was entered with, the threshold being wma_fib_0 * (1 +
\* reset_pct_above_fib_0) for the configured percentage.
C7_TriggerTransition ==
    StoreOK =>
        \A i \in DOMAIN Recs :
            ~NullIndicators(Recs[i]) =>
                Recs[i].trigger_armed =
                    Some(ClaimedTransition(prev_states[i], Recs[i].price * Scale,
                                           Recs[i].wma_fib_0[1], Recs[i].fib_entry[1]))

\* C8: trigger causality.  A record has buy_signal only if the trigger was
\* armed when the record was entered and its price is above wma_fib_0; a
\* record with null wma_fib_0 or fib_entry has no buy_signal.
C8_BuySignalCausality ==
    StoreOK =>
        \A i \in DOMAIN Recs :
            /\ Recs[i].buy_signal =>
                  /\ prev_states[i] = Some(TRUE)
                  /\ Recs[i].wma_fib_0 # None
                  /\ Recs[i].price * Scale > Recs[i].wma_fib_0[1]
            /\ NullIndicators(Recs[i]) => ~Recs[i].buy_signal

\* a buy signal has been recorded
C8_Witness == StoreOK /\ \E i \in DOMAIN Recs : Recs[i].buy_signal

\* the state the point after record i is evaluated against: the next
\* record's, or for the last record the seed the next batch will read
NextEntered(i) ==
    IF i < Len(Recs) THEN prev_states[i + 1] ELSE LastTriggerState(savant, Len(Recs))

\* C9: no-op transition on missing indicators.  After a record with null
\* wma_fib_0 or fib_entry the next point is evaluated against the state that
\* record was entered with.
C9_NoOpOnMissingIndicators ==
    StoreOK =>
        \A i \in DOMAIN Recs :
            NullIndicators(Recs[i]) => AsBool(NextEntered(i)) = AsBool(prev_states[i])

\* C10: arrival-order alignment.  The store holds one record per processed
\* PricePoint, and record i carries the timestamp and price of history[i].
C10_ArrivalOrder ==
    /\ Len(Recs) =< Len(history)
    /\ StoreOK => Len(Recs) = last_processed_count
    /\ \A i \in DOMAIN Recs :
          /\ Recs[i].timestamp = history[i].timestamp
          /\ Recs[i].price = history[i].price

\* the whole of a history with a duplicate and an out-of-order timestamp has
\* been processed
C10_Witness ==
    /\ StoreOK
    /\ Len(Recs) = Len(history)
    /\ \E i \in DOMAIN history : \E j \in DOMAIN history :
          i < j /\ history[i].timestamp = history[j].timestamp
    /\ \E i \in DOMAIN history : \E j \in DOMAIN history :
          i < j /\ history[i].timestamp > history[j].timestamp

\* C11: cursor invariant.  Before and after every step the cursor equals the
\* number of records of the persisted store and is at most len(history);
\* a step changes it only by starting up (to the store's row count) or by
\* completing an append batch (to the new number of records).
C11_CursorInvariant ==
    [][/\ last_processed_count = get_last_processed_count(savant)
       /\ last_processed_count' = get_last_processed_count(savant')
       /\ last_processed_count' =< Len(history')
       /\ last_processed_count' # last_processed_count =>
             \/ last_tick' = None
             \/ /\ last_tick'[1].ok
                /\ last_tick'[1].appended > 0
                /\ savant'.exists /\ savant'.complete]_vars

\* the requests that have read the history and not yet returned
Running == {c \in Clients : in_flight[c].pc # "idle"}

\* C12: ticks never overlap.  At any moment at most one callback request is
\* between its read of the price history and its return.
C12_TicksNeverOverlap == Cardinality(Running) =< 1

\* the candle and indicator fields of a record
IndicatorNames ==
    {"ohlc_open", "ohlc_high", "ohlc_low", "ohlc_close", "wma_fib_0", "wma_fib_50",
     "fib_entry", "atr", "highest_high_42", "lowest_low_42"}

\* the record of PricePoint i from the candles of the points that had
\* arrived when it did: history[1..i]
RecordAtArrival(i) ==
    create_enhanced_record(history[i], FibDataMap(IndicatorRows(SubSeq(history, 1, i))),
                           trade_state, None, None).rec

\* C13: no lookahead.  The candle and indicator fields recorded for a
\* PricePoint are those computed from the points that arrived at or before
\* it, whatever points follow it in the history.
C13_NoLookahead ==
    StoreOK =>
        \A i \in DOMAIN Recs :
            \E at \in {RecordAtArrival(i)} :
                \A n \in IndicatorNames : Recs[i][n] = at[n]

\* the store file is there and its JSON text does not parse
Unreadable(file) == file.exists /\ ~file.complete

\* the paths of a callback that ends in a failure of its own input or
\* output, not of the persisted store it found
OwnFailures == {"write_error", "handled", "uncaught"}

\* C14: malformed persisted state.  A callback that finds the store
\* unreadable, at start-up or during a run, and whose own reads and writes
\* succeed, treats the store as empty: it rebuilds a record for every
\* PricePoint of the history, starting from DISARMED.
C14_MalformedStoreRebuilt ==
    [][(/\ Unreadable(savant)
        /\ history' = history
        /\ last_tick' # None
        /\ last_tick'[1].path \notin OwnFailures)
       => /\ savant'.exists /\ savant'.complete
          /\ Len(savant'.recs) = Len(history)
          /\ prev_states'[1] = Some(FALSE)]_vars

\* C15: failure containment.  No failure raised during a callback leaves
\* the callback: each is caught by a handler of the callback.
C15_FailureContained == last_tick # None => last_tick[1].path # "uncaught"

\* C16: not-ready input.  A callback that finds the price history missing,
\* empty or cut off completes in its handler, appends no record and leaves
\* the store, the snapshot, the cursor and the page's trade state unchanged.
C16_NotReadyInput ==
    [][(/\ history' = history
        /\ last_tick' # None
        /\ last_tick'[1].input # "ok")
       => /\ last_tick'[1].path = "handled"
          /\ last_tick'[1].appended = 0
          /\ savant' = savant
          /\ trigger_file' = trigger_file
          /\ last_processed_count' = last_processed_count
          /\ trade_state' = trade_state]_vars

\* a callback found the history cut off while the store held records and
\* the page's trigger was on
C16_Witness ==
    /\ last_tick # None
    /\ last_tick[1].input = "partial"
    /\ StoreOK /\ Recs # <<>>
    /\ trade_state.trigger_on

\* a callback found no history at all
C16_ColdWitness == last_tick # None /\ last_tick[1].input \in {"missing", "empty"}

\* C17: latest-state snapshot.  Whenever the store holds records, the
\* snapshot file holds the last of them, field for field.
C17_SnapshotIsLastRecord ==
    (StoreOK /\ Recs # <<>>) => trigger_file = Some(Last(Recs))

\* the derived fields of an IndicatorRow
LevelFields == {"highest_high", "lowest_low", "wma_fib_0", "wma_fib_50", "fib_entry"}
DerivedFields == LevelFields \cup {"atr"}

C18_ReadyWitness ==
    /\ Len(indicators) = MIN_CANDLES
    /\ Last(indicators).fib_entry # None

\* C19: entry-level floor.  In every row with wma_fib_0 and atr defined,
\* fib_entry is the greater of wma_fib_0 - 1.5 * atr and 0.85 * wma_fib_0,
\* hence between 0.85 * wma_fib_0 and wma_fib_0; in every other row fib_entry
\* is null.
C19_EntryLevelFloor ==
    \A i \in DOMAIN indicators :
       LET row == indicators[i]
       IN IF row.wma_fib_0 # None /\ row.atr # None
          THEN /\ row.fib_entry # None
               /\ 100 * row.fib_entry[1] =
                     SetMax({100 * row.wma_fib_0[1] - 150 * row.atr[1],
                             85 * row.wma_fib_0[1]})
               /\ 85 * row.wma_fib_0[1] =< 100 * row.fib_entry[1]
               /\ row.fib_entry[1] =< row.wma_fib_0[1]
          ELSE row.fib_entry = None

\* a row whose entry level is the floor, and a row whose entry level is above it
C19_Witness ==
    /\ \E i \in DOMAIN indicators :
          /\ indicators[i].fib_entry # None
          /\ 100 * indicators[i].wma_fib_0[1] - 150 * indicators[i].atr[1]
                < 85 * indicators[i].wma_fib_0[1]
    /\ \E i \in DOMAIN indicators :
          /\ indicators[i].fib_entry # None
          /\ 100 * indicators[i].wma_fib_0[1] - 150 * indicators[i].atr[1]
                > 85 * indicators[i].wma_fib_0[1]

\* True Range of row j from the candles: the greatest of high - low,
\* |high - previous close| and |low - previous close|; the first candle
\* has no previous close
TR(rows, j) ==
    IF j = 1 THEN rows[j].high - rows[j].low
    ELSE SetMax({rows[j].high - rows[j].low,
                 Abs(rows[j].high - rows[j - 1].close),
                 Abs(rows[j].low - rows[j - 1].close)})

RECURSIVE SumTR(_, _, _)
SumTR(rows, lo, hi) == IF lo > hi THEN 0 ELSE TR(rows, hi) + SumTR(rows, lo, hi - 1)

\* atr of row i is the plain mean of True Range over rows first..i
AtrIsMean(rows, i, first) ==
    /\ rows[i].atr # None
    /\ (i - first + 1) * rows[i].atr[1] = Scale * SumTR(rows, first, i)

\* C20 as stated: True Range of the first candle is undefined, so atr is
\* null for each of the first 14 candles and is the mean of True Range over
\* the trailing 14 candles afterwards.
C20_AtrDefinition ==
    \A i \in DOMAIN indicators :
       IF i =< ATR_PERIOD THEN indicators[i].atr = None
       ELSE AtrIsMean(indicators, i, i - ATR_PERIOD + 1)

\* C20: ATR definition.  True Range of the first candle is its high - low;
\* atr is null for each of the first 13 candles and from the 14th on is the
\* plain mean of True Range over the trailing 14 candles.
C20_AtrFromFourteenth ==
    \A i \in DOMAIN indicators :
       IF i < ATR_PERIOD THEN indicators[i].atr = None
       ELSE AtrIsMean(indicators, i, i - ATR_PERIOD + 1)

\* the 14th row's atr is defined, its window holding the first candle and a
\* candle whose True Range is a gap from the previous close
C20_Witness ==
    /\ Len(indicators) >= ATR_PERIOD
    /\ indicators[ATR_PERIOD].atr # None
    /\ \E j \in 2..ATR_PERIOD :
          TR(indicators, j) > indicators[j].high - indicators[j].low

\* the trigger state the call for the i-th persisted record returned: the
\* record's own flag (line 367), or the state it was given (line 411)
StateLeft(i) ==
    IF Recs[i].trigger_armed # None THEN Recs[i].trigger_armed ELSE prev_states[i]

\* C21: disarmed persistence.  A record entered with the trigger disarmed
\* leaves it armed only if its price is strictly below its fib_entry, a
\* record left disarmed hands a disarmed trigger to the next record, and a
\* record whose price exceeds its reset_threshold leaves the trigger
\* disarmed.
C21_DisarmedPersistence ==
    StoreOK =>
       \A i \in DOMAIN Recs :
          /\ (~AsBool(prev_states[i]) /\ AsBool(StateLeft(i)))
                => /\ Recs[i].fib_entry # None
                   /\ Recs[i].price * Scale < Recs[i].fib_entry[1]
          /\ (i > 1 /\ ~AsBool(StateLeft(i - 1))) => ~AsBool(prev_states[i])
          /\ (/\ Recs[i].reset_threshold # None
              /\ Recs[i].price * Scale > Recs[i].reset_threshold[1])
                => ~AsBool(StateLeft(i))

\* a record disarmed by a price above its reset threshold, followed by a
\* record priced between its fib_entry and its reset threshold and above
\* wma_fib_0, which stays disarmed
C21_Witness ==
    /\ StoreOK
    /\ \E i \in DOMAIN Recs :
          /\ i > 1
          /\ Recs[i - 1].price_above_reset = Some(TRUE)
          /\ Recs[i - 1].trigger_armed = Some(FALSE)
          /\ Recs[i].price_above_reset = Some(FALSE)
          /\ Recs[i].price_above_fib_0 = Some(TRUE)
          /\ Recs[i].trigger_armed = Some(FALSE)

\* the trading-position bookkeeping fields of a record (lines 388-393)
BookkeepingNames == {"current_in_position", "current_trigger_on", "entry_price", "position_size"}

\* C22: fixed record shape.  Every record of the store has the same set of
\* fields, the bookkeeping fields among them.
C22_FixedRecordShape ==
    StoreOK =>
       \A i \in DOMAIN Recs :
          /\ BookkeepingNames \subseteq DOMAIN Recs[i]
          /\ DOMAIN Recs[i] = DOMAIN Recs[1]

\* C24: position flag.  In a callback that starts with a position open the
\* page's trade state is left as it is and buy_signal is reported false; a
\* callback that reports buy_signal started flat, opens the position and
\* sets entry_price to the latest close; a callback that starts flat and
\* reports no buy_signal stays flat and keeps entry_price.
C24_PositionFlag ==
    [][(history' = history /\ last_tick' # None)
       => /\ trade_state.in_position
                => /\ trade_state' = trade_state
                   /\ ~last_tick'[1].buy_signal
          /\ last_tick'[1].buy_signal
                => /\ ~trade_state.in_position
                   /\ trade_state'.in_position
                   /\ trade_state'.entry_price = Some(Last(Resample(history)).close)
          /\ (~trade_state.in_position /\ ~last_tick'[1].buy_signal)
                => /\ ~trade_state'.in_position
                   /\ trade_state'.entry_price = trade_state.entry_price]_vars

\* a callback has run with the position open
C24_Witness ==
    /\ trade_state.in_position
    /\ trade_state.entry_price # None
    /\ last_tick # None
    /\ ~last_tick[1].buy_signal

\* C25: the price history is append-only.  Every step leaves each
\* PricePoint of the history file at its index with its content.
C25_HistoryAppendOnly == [][IsPrefix(history, history')]_vars

\* C26: safe startup.  The manager is about to issue a start only for a
\* component whose tmux session does not exist.
C26_SafeStartup ==
    manager.pc = "start" => processes_info[manager.i] \notin sessions

\* the monitoring loop is about to restart a component while other
\* components are running
C26_Witness ==
    /\ manager.pc = "start"
    /\ manager.phase = "monitor"
    /\ sessions # {}

\* the manager is running and has not been told to stop
Monitoring == manager.pc \notin {"off", "done"} /\ manager.running

\* C27: supervisor restart.  When starts succeed, a component whose session
\* is gone while the manager runs is running again later, unless the
\* manager is stopped meanwhile.
C27_SupervisorRestart ==
    \A c \in {TMUX_SESSIONS[k] : k \in DOMAIN TMUX_SESSIONS} :
       (Monitoring /\ c \notin sessions) ~> (c \in sessions \/ ~Monitoring)

\* a component's session is gone while the manager sleeps between rounds
C27_Witness ==
    /\ Monitoring
    /\ manager.phase = "monitor"
    /\ manager.pc = "sleep"
    /\ "jupiter_executor" \notin sessions
    /\ "jupiter_tracker" \in sessions

\* the manager's own part of its record
ManagerPart(m) == <<m.pc, m.phase, m.i, m.running>>

\* C28: manager stop leaves components running.  No step of the manager
\* removes a session, its end included; each step of the stop command
\* kills the session of its next component, all four in turn.
C28_ManagerStopKeepsSessions ==
    [][/\ ManagerPart(manager') # ManagerPart(manager) => sessions \subseteq sessions'
       /\ manager'.stop_i # manager.stop_i
             => /\ manager.stop_i > 0 =>
                      sessions' = sessions \ {TMUX_SESSIONS[manager.stop_i]}
                /\ manager'.stop_i = (manager.stop_i + 1) % (Len(TMUX_SESSIONS) + 1)]_vars

\* the manager was stopped by a signal and has ended with the four
\* components running
C28_Witness ==
    /\ manager.pc = "done"
    /\ ~manager.running
    /\ manager.phase = "monitor"
    /\ sessions = {TMUX_SESSIONS[k] : k \in DOMAIN TMUX_SESSIONS}

\* the timestamps of the PricePoints added after the dip
SignalTimes == {(WarmCandles + k) * BUCKET_MINUTES : k \in 1..(MaxNew + 1)}
\* the store holds a record of timestamp t with buy_signal set
BuyRecorded(t) ==
    StoreOK /\ \E i \in DOMAIN Recs : Recs[i].timestamp = t /\ Recs[i].buy_signal
\* the bot has sent a buy alert for the record of timestamp t
BuyAlerted(t) ==
    \E a \in signal_bot.alerts :
       a.timestamp = Some(t) /\ a.kind \in {"detected", "executed", "failed"}

\* C23: signal delivery.  Every record appended with buy_signal set is
\* later observed by the signal bot, which sends a buy alert for it.
C23_SignalDelivery ==
    \A t \in SignalTimes : BuyRecorded(t) ~> BuyAlerted(t)

\* the poll of the bot has handled a new buy signal in this step
HandlesSignal ==
    signal_bot'.last_traded_signal_timestamp # signal_bot.last_traded_signal_timestamp

\* C29: alert-only mode.  A poll that handles a buy signal sends a buy
\* alert for it; with trading.enabled false or bot_config.json missing or
\* unreadable it leaves pending_trades.json as it is, and pending_trades.json
\* changes only by one BUY command appended while trading is enabled.
C29_AlertOnlyMode ==
    [][/\ HandlesSignal =>
             /\ \E a \in signal_bot'.alerts :
                   /\ a.timestamp = signal_bot'.last_traded_signal_timestamp
                   /\ a.kind \in {"detected", "executed", "failed"}
                   /\ a.kind = "detected" <=> bot_config # "enabled"
             /\ bot_config # "enabled" => pending_trades' = pending_trades
       /\ pending_trades' # pending_trades =>
             /\ bot_config = "enabled"
             /\ HandlesSignal
             /\ Len(pending_trades') = Len(pending_trades) + 1
             /\ SubSeq(pending_trades', 1, Len(pending_trades)) = pending_trades
             /\ Last(pending_trades').command = "BUY"
             /\ Some(Last(pending_trades').signal)
                   = signal_bot'.last_traded_signal_timestamp]_vars

\* one signal was only alerted, with trading not enabled, and another was
\* traded
C29_Witness ==
    /\ \E a \in signal_bot.alerts : a.kind = "detected"
    /\ \E a \in signal_bot.alerts : a.kind = "executed"
    /\ Len(pending_trades) = 1

\* C30: at most one trade per signal.  No two BUY commands of
\* pending_trades.json were made from the same record.
C30_AtMostOnceTrade ==
    \A i, j \in DOMAIN pending_trades :
       i # j => pending_trades[i].signal # pending_trades[j].signal

\* the kinds of the buy alerts
BuyAlertKinds == {"detected", "executed", "failed"}

\* the bot has handled the store's latest record, a buy signal
LatestHandled ==
    /\ StoreOK
    /\ Recs # <<>>
    /\ Last(Recs).buy_signal
    /\ signal_bot.last_traded_signal_timestamp = Some(Last(Recs).timestamp)

\* C31: poll idempotence.  Once the bot has handled the store's latest
\* record, a poll that reads this record again sends no buy alert and
\* leaves pending_trades.json as it is, whatever bot_config.json says.
C31_PollIdempotence ==
    LatestHandled =>
        \A cfg \in ConfigStates, raises \in BOOLEAN :
           \E r \in {monitor_signals(signal_bot, cfg, pending_trades,
                                     read_last_savant_record(savant), raises)} :
              /\ r.pending = pending_trades
              /\ \A a \in r.sent : a.kind \notin BuyAlertKinds
              /\ r.bot.last_traded_signal_timestamp
                    = signal_bot.last_traded_signal_timestamp

\* the latest record was handled and traded, and the dashboard is idle:
\* every further poll reads the same record
C31_Witness ==
    /\ LatestHandled
    /\ in_flight[1].pc = "idle"
    /\ pending_trades # <<>>
    /\ Last(pending_trades).signal = Last(Recs).timestamp

\* the BUY commands made from the record of timestamp t
CommandsFor(pending, t) == SelectSeq(pending, LAMBDA c : c.signal = t)

\* the command write for the record of timestamp t has failed
WriteFailed(t) == [kind |-> "failed", timestamp |-> Some(t)] \in signal_bot.alerts

\* C37: no retry of a failed trade write.  A poll whose command write
\* fails still sets last_traded_signal_timestamp to the record's timestamp,
\* and once the write for a record has failed no BUY command is made from
\* that record.
C37_NoRetryOfFailedWrite ==
    [][\A t \in SignalTimes :
          /\ (~WriteFailed(t) /\ WriteFailed(t)')
                => /\ signal_bot'.last_traded_signal_timestamp = Some(t)
                   /\ pending_trades' = pending_trades
          /\ WriteFailed(t)
                => CommandsFor(pending_trades', t) = CommandsFor(pending_trades, t)]_vars

\* the manager issues a start in start_all_processes in this step
StartsInStartAll ==
    /\ manager.phase = "start_all"
    /\ manager.pc = "start"
    /\ manager'.pc # "start"

\* C32: start order.  start_all_processes goes through the components in
\* the order of TMUX_SESSIONS; when it starts one, every earlier one is
\* running; when a start fails it ends without starting a later one.
C32_StartOrder ==
    [][/\ (manager.phase = "start_all" /\ manager'.phase = "start_all"
           /\ manager.pc \in {"check", "start"} /\ manager'.pc \in {"check", "start"})
             => manager'.i \in {manager.i, manager.i + 1}
       /\ StartsInStartAll
             => /\ \A j \in 1..(manager.i - 1) : TMUX_SESSIONS[j] \in sessions
                /\ sessions' = sessions
                      => manager'.pc = "done"]_vars

\* the trigger alerts among the alerts of one poll
TriggerAlerts(sent) == {a \in sent : a.kind \in {"armed", "disarmed"}}
\* the trigger alert for a state
AlertFor(state) ==
    [kind |-> IF state[1] THEN "armed" ELSE "disarmed", timestamp |-> None]

\* C33: trigger alerts alternate.  Whatever record of the store a poll
\* reads, it sends a trigger alert only when the record's trigger_armed is
\* not null and differs from the state last alerted on, the alert is the
\* one for the new state, which is then remembered; a poll that sends none
\* (null trigger_armed included) leaves the remembered state as it is.  So
\* two alerts in a row are never of the same kind.
C33_TriggerAlertsAlternate ==
    /\ signal_bot.last_known_trigger_state # None
          => AlertFor(signal_bot.last_known_trigger_state) \in signal_bot.alerts
    /\ \A latest_record \in {None} \cup {Some(Recs[k]) : k \in DOMAIN Recs} :
          \E r \in {monitor_signals(signal_bot, bot_config, pending_trades,
                                    latest_record, FALSE)} :
             \E sent \in {TriggerAlerts(r.sent)} :
                /\ sent # {} =>
                      /\ latest_record # None
                      /\ latest_record[1].trigger_armed # None
                      /\ latest_record[1].trigger_armed
                            # signal_bot.last_known_trigger_state
                      /\ sent = {AlertFor(latest_record[1].trigger_armed)}
                      /\ r.bot.last_known_trigger_state = latest_record[1].trigger_armed
                /\ sent = {} =>
                      r.bot.last_known_trigger_state = signal_bot.last_known_trigger_state
                /\ (latest_record = None \/ latest_record[1].trigger_armed = None)
                      => sent = {}

\* the bot has alerted on ARMED and then on DISARMED, and the store still
\* holds records with null and with armed trigger_armed
C33_Witness ==
    /\ StoreOK
    /\ signal_bot.last_known_trigger_state = Some(FALSE)
    /\ AlertFor(Some(TRUE)) \in signal_bot.alerts
    /\ \E k \in DOMAIN Recs : Recs[k].trigger_armed = None
    /\ \E k \in DOMAIN Recs : Recs[k].trigger_armed = Some(TRUE)

\* the records of the store with wma_fib_0 and fib_entry
WithLevels == {i \in DOMAIN Recs : ~NullIndicators(Recs[i])}

\* C34: record consistency.  In every record with wma_fib_0 and
\* fib_entry: buy_signal implies trigger_armed and a price above wma_fib_0
\* and not above reset_threshold; a price above reset_threshold implies
\* neither trigger_armed nor buy_signal; a price below fib_entry and not
\* above reset_threshold implies trigger_armed and no buy_signal.
C34_RecordConsistency ==
    \A i \in WithLevels :
       \E price \in {Recs[i].price * Scale} :
          /\ Recs[i].buy_signal
                => /\ Recs[i].trigger_armed = Some(TRUE)
                   /\ Recs[i].wma_fib_0[1] < price
                   /\ price =< Recs[i].reset_threshold[1]
          /\ price > Recs[i].reset_threshold[1]
                => /\ Recs[i].trigger_armed = Some(FALSE)
                   /\ ~Recs[i].buy_signal
          /\ (price < Recs[i].fib_entry[1] /\ price =< Recs[i].reset_threshold[1])
                => /\ Recs[i].trigger_armed = Some(TRUE)
                   /\ ~Recs[i].buy_signal

\* the store holds a record of each of the three cases
C34_Witness ==
    /\ StoreOK
    /\ \E i \in WithLevels : Recs[i].buy_signal
    /\ \E i \in WithLevels : Recs[i].price * Scale > Recs[i].reset_threshold[1]
    /\ \E i \in WithLevels : Recs[i].price * Scale < Recs[i].fib_entry[1]

\* C35: per-record failure.  The store holds exactly one record per
\* processed PricePoint; a record whose processing raised has null
\* indicator fields and no buy_signal, and the point after it is evaluated
\* against the state the record was entered with; the other points of the
\* batch are processed as usual.
C35_PerRecordFailure ==
    StoreOK =>
       /\ Len(Recs) =< Len(history)
       /\ \A i \in DOMAIN Recs :
             /\ Recs[i].timestamp = history[i].timestamp
             /\ Recs[i].price = history[i].price
             /\ i \in RaisedSoFar
                   => /\ \A f \in DOMAIN NullLevelFields : Recs[i][f] = None
                      /\ Recs[i].trigger_armed = None
                      /\ ~Recs[i].buy_signal
                      /\ AsBool(NextEntered(i)) = AsBool(prev_states[i])
             /\ (i \notin RaisedSoFar /\ i > WarmCandles)
                   => /\ ~NullIndicators(Recs[i])
                      /\ Recs[i].trigger_armed # None

\* the tracker has gone through one round of run() in this step
TrackerRound == tracker.up /\ tracker'.up /\ tracker' # tracker

\* C36: failed fetch leaves history unchanged.  A round whose fetch fails
\* adds no PricePoint and leaves the history file as it is, and the
\* tracker goes on; a round whose fetch succeeds appends exactly one
\* PricePoint and saves the file.
C36_FailedFetchLeavesHistory ==
    [][TrackerRound =>
          \/ /\ tracker'.price_data = tracker.price_data
             /\ history' = history
          \/ /\ Len(tracker'.price_data) = Len(tracker.price_data) + 1
             /\ IsPrefix(tracker.price_data, tracker'.price_data)
             /\ history' = tracker'.price_data]_vars
====
